---- MODULE Spec2Model ----
(***************************************************************************)
(* The tracking pollers of the coastguard dashboard and their track        *)
(* segmenter.                                                              *)
(*                                                                         *)
(*   TrackLayer  src/unnamed/part_000  (class component, vessel tracker)    *)
(*   Tracks      src/unnamed/part_001  (function component, history)        *)
(*                                                                         *)
(* One poller instance is followed from construction to after its          *)
(* unmount; `component` says which of the two it is.  The browser's event   *)
(* loop is the scheduler: every action is one task (a lifecycle call, a     *)
(* timer callback, a response event) together with the promise reactions    *)
(* the task leaves behind, which the event loop runs before the next task.  *)
(***************************************************************************)
EXTENDS Integers, Sequences, FiniteSets

\* ------------------------------------------------------------------------
\* Bounds of the model

\* requests a TrackLayer instance may issue
MaxRequests == 6
\* requests a Tracks instance may issue
MaxHistoryRequests == 3
\* longest track given to the segmenter on its own
MaxLen == 3

\* ------------------------------------------------------------------------
\* Program constants

\* settings.maxErrors
maxErrors == 5

\* segmentMax = 3 * minVal * 60
SegmentMaxOf(minVal) == 3 * minVal * 60

\* minVal of the history component's timeframes ('12H','24H','7D' / '30D',
\* '0M','1M','2M' / 'All'); TrackLayer's segmentMax is 3 * 1 * 60
MinVals == {1, 2, 5}

\* ------------------------------------------------------------------------
\* Track segmenter

Abs(x) == IF x < 0 THEN -x ELSE x

\* the sort with the comparator (a, b) => a.dt - b.dt: ascending
RECURSIVE InsertAsc(_, _)
InsertAsc(s, t) ==
    IF s = <<>> THEN <<t>>
    ELSE IF Head(s).dt <= t.dt THEN <<Head(s)>> \o InsertAsc(Tail(s), t)
    ELSE <<t>> \o s

\* Array.prototype.sort((a, b) => b.dt - a.dt): descending by dt, stable
RECURSIVE InsertDesc(_, _)
InsertDesc(s, t) ==
    IF s = <<>> THEN <<t>>
    ELSE IF Head(s).dt >= t.dt THEN <<Head(s)>> \o InsertDesc(Tail(s), t)
    ELSE <<t>> \o s

RECURSIVE SortDesc(_)
SortDesc(track) ==
    IF track = <<>> THEN <<>>
    ELSE InsertDesc(SortDesc(SubSeq(track, 1, Len(track) - 1)), track[Len(track)])

\* let lines = []; let segment = null; let segmentDt = 0;
\* let segment = []  (an open, empty segment in place of null)
SegStartEmpty == [lines |-> <<>>, isNull |-> FALSE, segment |-> <<>>, segmentDt |-> 0,
                  threw |-> FALSE]

SegStart == [lines |-> <<>>, isNull |-> TRUE, segment |-> <<>>, segmentDt |-> 0,
             threw |-> FALSE]

\* segment != null && segment.length > 0  (a slip of the retention test)
RetainedNonEmpty(st) == ~st.isNull /\ Len(st.segment) > 0

\* segment != null && segment.length > 1
Retained(st) == ~st.isNull /\ Len(st.segment) > 1

\* if (segment != null && segment.length > 1) lines.push(segment)
CloseSegment(st) == IF Retained(st) THEN Append(st.lines, st.segment) ELSE st.lines

\* the forEach callback with the gap test interval >= segmentMax
SegStepGe(st, t, segmentMax) ==
    LET interval == Abs(t.dt - st.segmentDt)
        opened == IF interval >= segmentMax
                  THEN [st EXCEPT !.lines = CloseSegment(st), !.isNull = FALSE,
                                  !.segment = <<>>]
                  ELSE st
    IN  IF opened.isNull
        THEN [opened EXCEPT !.segmentDt = t.dt, !.threw = TRUE]
        ELSE [opened EXCEPT !.segmentDt = t.dt,
                            !.segment = Append(opened.segment, <<t.lat, t.lon>>)]

\* the body of vessel.track.forEach(t => ...); segment.push on null throws
SegStep(st, t, segmentMax) ==
    LET interval == Abs(t.dt - st.segmentDt)
        opened == IF interval > segmentMax
                  THEN [st EXCEPT !.lines = CloseSegment(st), !.isNull = FALSE,
                                  !.segment = <<>>]
                  ELSE st
    IN  IF opened.isNull
        THEN [opened EXCEPT !.segmentDt = t.dt, !.threw = TRUE]
        ELSE [opened EXCEPT !.segmentDt = t.dt,
                            !.segment = Append(opened.segment, <<t.lat, t.lon>>)]

\* the loop without the clean up: the last open segment is never pushed
SegFinishNone(st) == st

\* the clean up after the loop
SegFinish(st) == [st EXCEPT !.lines = CloseSegment(st)]

RECURSIVE SegLoop(_, _, _)
SegLoop(st, track, segmentMax) ==
    IF track = <<>> \/ st.threw THEN st
    ELSE SegLoop(SegStep(st, Head(track), segmentMax), Tail(track), segmentMax)

\* one vessel of tracks.forEach: sort, head position, lines.  pos is a
\* sequence: <<>> is undefined (track[0] of an empty track)
ProcessVessel(vessel, segmentMax) ==
    LET sorted == SortDesc(vessel.track)
        st == SegLoop(SegStart, sorted, segmentMax)
    IN  [threw |-> st.threw,
         vessel |-> [mmsi |-> vessel.mmsi, track |-> sorted,
                     pos |-> IF sorted = <<>> THEN <<>> ELSE <<sorted[1]>>,
                     lines |-> SegFinish(st).lines]]

\* tracks.forEach((vessel) => ...): the first throw leaves the loop
RECURSIVE ProcessVessels(_, _)
ProcessVessels(vessels, segmentMax) ==
    IF vessels = <<>> THEN [threw |-> FALSE, tracks |-> <<>>]
    ELSE LET first == ProcessVessel(Head(vessels), segmentMax)
         IN  IF first.threw THEN [threw |-> TRUE, tracks |-> <<>>]
             ELSE LET rest == ProcessVessels(Tail(vessels), segmentMax)
                  IN  [threw |-> rest.threw,
                       tracks |-> IF rest.threw THEN <<>>
                                  ELSE <<first.vessel>> \o rest.tracks]

\* the .then handler up to setState / setTracks: response.data.tracks of a
\* body without a tracks list is undefined and forEach on it throws
ProcessResponse(data, segmentMax) ==
    IF ~data.hasTracks THEN [threw |-> TRUE, tracks |-> <<>>]
    ELSE ProcessVessels(data.tracks, segmentMax)

\* ------------------------------------------------------------------------
\* What the remote API may send

Position(dt, lat, lon) == [dt |-> dt, lat |-> lat, lon |-> lon]

\* { tracks: [{ mmsi, track: [{ dt, lat, lon }] }] } response bodies: a
\* vessel with an unsorted track and a lone point, a second vessel whose
\* most recent point is within 3 * 2 * 60 of epoch 0, a vessel with no
\* positions, a vessel whose most recent point is within 3 * 1 * 60 of
\* epoch 0, an empty fleet, and a body without a tracks list
Vessel(mmsi, track) == [mmsi |-> mmsi, track |-> track]

VesselA == Vessel(1, <<Position(5000, 1, 1), Position(5100, 2, 2), Position(9000, 3, 3)>>)
VesselB == Vessel(2, <<Position(100, 4, 4), Position(190, 5, 5)>>)
VesselC == Vessel(3, <<>>)
VesselD == Vessel(4, <<Position(100, 6, 6), Position(150, 7, 7)>>)

Body(vessels) == [hasTracks |-> TRUE, tracks |-> vessels]
NoBody == [hasTracks |-> FALSE, tracks |-> <<>>]

Bodies == {Body(<<VesselA>>), Body(<<VesselA, VesselB>>), Body(<<VesselC>>),
           Body(<<VesselA, VesselD>>), Body(<<>>), NoBody}

\* some vessel of the body has positions and its most recent one has
\* dt <= segmentMax
HasRecentHead(data, segmentMax) ==
    /\ data.hasTracks
    /\ \E i \in 1..Len(data.tracks) :
          /\ data.tracks[i].track # <<>>
          /\ \A j \in 1..Len(data.tracks[i].track) :
                data.tracks[i].track[j].dt <= segmentMax

\* how a request ends: a response with a body, or a network error
Outcomes == {[ok |-> TRUE, data |-> d] : d \in Bodies}
            \cup {[ok |-> FALSE, data |-> NoBody]}

\* ------------------------------------------------------------------------
\* State

VARIABLES
    component,      \* "TrackLayer" or "Tracks": the poller followed
    mounted,        \* this.mounted / the function component is mounted
    torn,           \* the component has been unmounted
    isVisible,      \* the isVisible prop of the latest render
    minVal,         \* Tracks: minVal of the latest render's timeframe / mins
    requestRef,     \* the current cancel token source (its id)
    nextToken,      \* id of the next axios.CancelToken.source()
    startupTimer,   \* "null", "pending", "fired", "cleared"
    refreshTimer,   \* "null", "active", "cleared"
    startupCap,     \* Tracks: the props the soft-start callback closed over
    refreshCap,     \* Tracks: the props the interval callback closed over
    inflight,       \* requests issued and not yet settled
    issued,         \* number of requests issued
    tracks,         \* this.state.tracks / the tracks state
    refreshErrors,  \* this.refreshErrors
    applied,        \* history: id of the request whose response was set last
    failStreak,     \* history: failures since the last success
    softStarted,    \* history: a soft-start callback has run
    lateUpdate,     \* history: setState / setTracks was called after unmount
    recentHead,     \* history: the step just taken settled a request with a
                    \* body in which some vessel's most recent dt <= segmentMax
    sgInput, sgMax, sgTrack, sgI, sgSt, sgPc   \* the segmenter on its own

pollerVars == <<component, mounted, torn, isVisible, minVal, requestRef, nextToken,
                startupTimer, refreshTimer, startupCap, refreshCap, inflight, issued,
                tracks, refreshErrors, applied, failStreak, softStarted, lateUpdate,
                recentHead>>
segVars == <<sgInput, sgMax, sgTrack, sgI, sgSt, sgPc>>
vars == <<pollerVars, segVars>>

Request(id, token, mv) == [id |-> id, token |-> token, minVal |-> mv]
Closure(vis, mv) == [isVisible |-> vis, minVal |-> mv]

\* requestRef.cancel(): the pending requests that hold the token reject
Cancelled == {r \in inflight : r.token = requestRef}

\* constructor / first render: requestRef is a fresh source, no timers,
\* tracks: []
PollerInit ==
    /\ component \in {"TrackLayer", "Tracks"}
    /\ mounted = FALSE /\ torn = FALSE
    /\ isVisible \in BOOLEAN
    /\ minVal \in (IF component = "Tracks" THEN MinVals ELSE {1})
    /\ requestRef = 0 /\ nextToken = 1
    /\ startupTimer = "null" /\ refreshTimer = "null"
    /\ startupCap = Closure(FALSE, 1) /\ refreshCap = Closure(FALSE, 1)
    /\ inflight = {} /\ issued = 0
    /\ tracks = <<>>
    /\ refreshErrors = 0
    /\ applied = 0 /\ failStreak = 0 /\ softStarted = FALSE /\ lateUpdate = FALSE
    /\ recentHead = FALSE

SegIdle ==
    /\ sgInput = <<>> /\ sgMax = 0 /\ sgTrack = <<>> /\ sgI = 0
    /\ sgSt = SegStart /\ sgPc = "idle"

Init == PollerInit /\ SegIdle

\* ------------------------------------------------------------------------
\* TrackLayer (src/unnamed/part_000)

\* an update that appends the new vessels to the displayed ones
SetTracksMerge(value) ==
    /\ tracks' = tracks \o value
    /\ lateUpdate' = (lateUpdate \/ torn')

\* this.setState({ tracks: ... }) / setTracks(...): the update, and whether
\* it was made against a torn-down view
SetTracks(value) ==
    /\ tracks' = value
    /\ lateUpdate' = (lateUpdate \/ torn')

\* refresh: returns while the page is not visible, else issues a GET with
\* the token of the current requestRef; it cancels nothing
TrackLayer_refresh(token) ==
    IF ~isVisible
    THEN UNCHANGED <<inflight, issued>>
    ELSE /\ issued < MaxRequests
         /\ inflight' = inflight \cup {Request(issued + 1, token, 1)}
         /\ issued' = issued + 1

\* the .catch handler clearing the tracks on every failure
TooManyErrorsAtOnce(n) == n >= 1

\* if (this.refreshErrors >= settings.maxErrors)
TooManyErrors(n) == n >= maxErrors

\* the .catch handler run n times in a row (n requests rejected by one
\* cancel, or one failed request)
TrackLayer_catch(n) ==
    /\ refreshErrors' = refreshErrors + n
    /\ failStreak' = failStreak + n
    /\ IF n > 0 /\ TooManyErrors(refreshErrors + n)
       THEN SetTracks(<<>>)
       ELSE UNCHANGED <<tracks, lateUpdate>>

\* componentDidMount: sets the soft-start timer (the early return is for a
\* second call on a mounted instance)
TrackLayer_componentDidMount ==
    /\ component = "TrackLayer"
    /\ ~mounted /\ ~torn
    /\ mounted' = TRUE
    /\ startupTimer' = "pending"
    /\ UNCHANGED <<segVars, component, torn, isVisible, minVal, requestRef, nextToken,
                   refreshTimer, startupCap, refreshCap, inflight, issued, tracks,
                   refreshErrors, applied, failStreak, softStarted, lateUpdate>>
    /\ recentHead' = FALSE

\* the soft-start callback: a new requestRef, the initial refresh, and the
\* refresh interval
TrackLayer_startup ==
    /\ component = "TrackLayer"
    /\ startupTimer = "pending"
    /\ startupTimer' = "fired"
    /\ softStarted' = TRUE
    /\ requestRef' = nextToken
    /\ nextToken' = nextToken + 1
    /\ TrackLayer_refresh(nextToken)
    /\ refreshTimer' = "active"
    /\ UNCHANGED <<segVars, component, mounted, torn, isVisible, minVal, startupCap,
                   refreshCap, tracks, refreshErrors, applied, failStreak, lateUpdate>>
    /\ recentHead' = FALSE

\* a tick of the refresh interval: () => this.refresh()
TrackLayer_tick ==
    /\ component = "TrackLayer"
    /\ refreshTimer = "active"
    /\ TrackLayer_refresh(requestRef)
    /\ UNCHANGED <<segVars, component, mounted, torn, isVisible, minVal, requestRef,
                   nextToken, startupTimer, refreshTimer, startupCap, refreshCap,
                   tracks, refreshErrors, applied, failStreak, softStarted,
                   lateUpdate>>
    /\ recentHead' = FALSE

\* a request settles: .then (process, setState, reset the counter), or
\* .catch after a network error or a throw of .then, and .finally
TrackLayer_response(r, outcome) ==
    /\ component = "TrackLayer"
    /\ r \in inflight
    /\ UNCHANGED <<segVars, component, mounted, torn, isVisible, minVal, startupTimer,
                   refreshTimer, startupCap, refreshCap, issued, softStarted>>
    /\ inflight' = inflight \ {r}
    /\ LET res == ProcessResponse(outcome.data, SegmentMaxOf(r.minVal))
       IN  IF outcome.ok /\ ~res.threw
           THEN /\ SetTracks(res.tracks)
                /\ refreshErrors' = 0
                /\ applied' = r.id
                /\ failStreak' = 0
           ELSE /\ TrackLayer_catch(1)
                /\ UNCHANGED applied
    /\ requestRef' = nextToken
    /\ nextToken' = nextToken + 1
    /\ recentHead' = (outcome.ok /\ HasRecentHead(outcome.data, SegmentMaxOf(r.minVal)))

\* componentWillUnmount: cancels requestRef, clears both timers; the
\* requests that held the token reject, and their .catch and .finally run
\* when the unmount has returned
TrackLayer_componentWillUnmount ==
    /\ component = "TrackLayer"
    /\ mounted
    /\ mounted' = FALSE
    /\ torn' = TRUE
    /\ startupTimer' = (IF startupTimer = "pending" THEN "cleared" ELSE startupTimer)
    /\ refreshTimer' = "null"
    /\ inflight' = inflight \ Cancelled
    /\ TrackLayer_catch(Cardinality(Cancelled))
    /\ requestRef' = (IF Cancelled = {} THEN requestRef
                      ELSE nextToken + Cardinality(Cancelled) - 1)
    /\ nextToken' = nextToken + Cardinality(Cancelled)
    /\ UNCHANGED <<segVars, component, isVisible, minVal, startupCap, refreshCap, issued,
                   applied, softStarted>>
    /\ recentHead' = FALSE

\* ------------------------------------------------------------------------
\* Tracks (src/unnamed/part_001)

\* refresh as a callback that closed over the props `cap`: returns while
\* its isVisible is false, else cancels requestRef, takes a new source and
\* issues a GET with its token.  A request the cancel rejected runs .catch
\* (a log) and .finally (one more new source) when the caller has returned
Tracks_refresh(cap) ==
    IF ~cap.isVisible
    THEN UNCHANGED <<requestRef, nextToken, inflight, issued>>
    ELSE /\ issued < MaxHistoryRequests
         /\ inflight' = (inflight \ Cancelled)
                            \cup {Request(issued + 1, nextToken, cap.minVal)}
         /\ issued' = issued + 1
         /\ requestRef' = (IF Cancelled = {} THEN nextToken
                           ELSE nextToken + Cardinality(Cancelled))
         /\ nextToken' = nextToken + 1 + Cardinality(Cancelled)

\* history: the requests a refresh cancels are failures
Tracks_cancelStreak(cap) ==
    failStreak' = (IF cap.isVisible THEN failStreak + Cardinality(Cancelled)
                   ELSE failStreak)

\* mount: both effects run, useEffect [startupMillis, refreshMillis] sets
\* the soft-start timer and useEffect [org, timeframe] calls refresh()
Tracks_mount ==
    /\ component = "Tracks"
    /\ ~mounted /\ ~torn
    /\ mounted' = TRUE
    /\ startupTimer' = "pending"
    /\ startupCap' = Closure(isVisible, minVal)
    /\ Tracks_refresh(Closure(isVisible, minVal))
    /\ Tracks_cancelStreak(Closure(isVisible, minVal))
    /\ UNCHANGED <<segVars, component, torn, isVisible, minVal, refreshTimer, refreshCap,
                   tracks, refreshErrors, applied, softStarted, lateUpdate>>
    /\ recentHead' = FALSE

\* the soft-start callback: refresh(), then the interval replaces the one
\* in refreshTimer.current; both callbacks share the closure of the render
\* whose effect set the timer
Tracks_startup ==
    /\ component = "Tracks"
    /\ startupTimer = "pending"
    /\ startupTimer' = "fired"
    /\ softStarted' = TRUE
    /\ Tracks_refresh(startupCap)
    /\ Tracks_cancelStreak(startupCap)
    /\ refreshTimer' = "active"
    /\ refreshCap' = startupCap
    /\ UNCHANGED <<segVars, component, mounted, torn, isVisible, minVal, startupCap, tracks,
                   refreshErrors, applied, lateUpdate>>
    /\ recentHead' = FALSE

\* a tick of the refresh interval
Tracks_tick ==
    /\ component = "Tracks"
    /\ refreshTimer = "active"
    /\ Tracks_refresh(refreshCap)
    /\ Tracks_cancelStreak(refreshCap)
    /\ UNCHANGED <<segVars, component, mounted, torn, isVisible, minVal, startupTimer,
                   refreshTimer, startupCap, refreshCap, tracks, refreshErrors,
                   applied, softStarted, lateUpdate>>
    /\ recentHead' = FALSE

\* startupMillis or refreshMillis changes: the effect's cleanup clears the
\* soft-start timer and the effect sets a new one; the interval stays
Tracks_timerProps ==
    /\ component = "Tracks"
    /\ mounted
    /\ startupTimer' = "pending"
    /\ startupCap' = Closure(isVisible, minVal)
    /\ UNCHANGED <<segVars, component, mounted, torn, isVisible, minVal, requestRef,
                   nextToken, refreshTimer, refreshCap, inflight, issued, tracks,
                   refreshErrors, applied, failStreak, softStarted, lateUpdate>>
    /\ recentHead' = FALSE

\* org or timeframe changes: useEffect [org, timeframe] calls the new
\* render's refresh()
Tracks_orgTimeframe(mv) ==
    /\ component = "Tracks"
    /\ mounted
    /\ minVal' = mv
    /\ Tracks_refresh(Closure(isVisible, mv))
    /\ Tracks_cancelStreak(Closure(isVisible, mv))
    /\ UNCHANGED <<segVars, component, mounted, torn, isVisible, startupTimer, refreshTimer,
                   startupCap, refreshCap, tracks, refreshErrors, applied,
                   softStarted, lateUpdate>>
    /\ recentHead' = FALSE

\* a .catch handler that clears the displayed tracks
Tracks_catchClear == SetTracks(<<>>)

\* .catch((err) => { Log("history refresh error", err); })
Tracks_catch == UNCHANGED <<tracks, lateUpdate>>

\* a request settles: .then (process, setTracks), or .catch (a log) after a
\* network error or a throw of .then, and .finally
Tracks_response(r, outcome) ==
    /\ component = "Tracks"
    /\ r \in inflight
    /\ UNCHANGED <<segVars, component, mounted, torn, isVisible, minVal, startupTimer,
                   refreshTimer, startupCap, refreshCap, issued, refreshErrors,
                   softStarted>>
    /\ inflight' = inflight \ {r}
    /\ LET res == ProcessResponse(outcome.data, SegmentMaxOf(r.minVal))
       IN  IF outcome.ok /\ ~res.threw
           THEN /\ SetTracks(res.tracks)
                /\ applied' = r.id
                /\ failStreak' = 0
           ELSE /\ failStreak' = failStreak + 1
                /\ Tracks_catch
                /\ UNCHANGED applied
    /\ requestRef' = nextToken
    /\ nextToken' = nextToken + 1
    /\ recentHead' = (outcome.ok /\ HasRecentHead(outcome.data, SegmentMaxOf(r.minVal)))

\* unmount: the one cleanup React holds clears the soft-start timer (the
\* function the soft-start callback returns is dropped by setTimeout)
Tracks_unmount ==
    /\ component = "Tracks"
    /\ mounted
    /\ mounted' = FALSE
    /\ torn' = TRUE
    /\ startupTimer' = (IF startupTimer = "pending" THEN "cleared" ELSE startupTimer)
    /\ UNCHANGED <<segVars, component, isVisible, minVal, requestRef, nextToken,
                   refreshTimer, startupCap, refreshCap, inflight, issued, tracks,
                   refreshErrors, applied, failStreak, softStarted, lateUpdate>>
    /\ recentHead' = FALSE

\* ------------------------------------------------------------------------
\* The parent renders the mounted component with another isVisible

SetVisible ==
    /\ mounted
    /\ isVisible' = ~isVisible
    /\ UNCHANGED <<segVars, component, mounted, torn, minVal, requestRef, nextToken,
                   startupTimer, refreshTimer, startupCap, refreshCap, inflight,
                   issued, tracks, refreshErrors, applied, failStreak, softStarted,
                   lateUpdate>>
    /\ recentHead' = FALSE

Next ==
    \/ TrackLayer_componentDidMount
    \/ TrackLayer_startup
    \/ TrackLayer_tick
    \/ \E r \in inflight, outcome \in Outcomes : TrackLayer_response(r, outcome)
    \/ TrackLayer_componentWillUnmount
    \/ Tracks_mount
    \/ Tracks_startup
    \/ Tracks_tick
    \/ Tracks_timerProps
    \/ \E mv \in MinVals : Tracks_orgTimeframe(mv)
    \/ \E r \in inflight, outcome \in Outcomes : Tracks_response(r, outcome)
    \/ Tracks_unmount
    \/ SetVisible

Spec == Init /\ [][Next]_vars

\* ------------------------------------------------------------------------
\* The segmenter on its own: the .then handler's work on one vessel, a
\* statement at a time, for every track up to MaxLen positions

DtValues == {100, 190, 280, 400, 5000}
Positions == {Position(dt, lat, 1) : dt \in DtValues, lat \in {1, 2}}
TracksUpTo(n) == UNION {[1..k -> Positions] : k \in 0..n}

\* positions with dt = [100, 190, 5000], each with its own (lat, lon)
ExampleTrack == <<Position(100, 10, 11), Position(190, 20, 21), Position(5000, 30, 31)>>

SegInit ==
    /\ PollerInit
    /\ isVisible
    /\ sgInput \in TracksUpTo(MaxLen) \cup {ExampleTrack}
    /\ sgMax = SegmentMaxOf(minVal)
    /\ sgTrack = <<>> /\ sgI = 0
    /\ sgSt = SegStart /\ sgPc = "sort"

\* vessel.track.sort(...); let lines = []; segment = null; segmentDt = 0
Seg_sort ==
    /\ sgPc = "sort"
    /\ sgTrack' = SortDesc(sgInput)
    /\ sgI' = 1
    /\ sgSt' = SegStart
    /\ sgPc' = "loop"
    /\ UNCHANGED <<pollerVars, sgInput, sgMax>>

\* one call of the forEach callback
Seg_step ==
    /\ sgPc = "loop"
    /\ sgI <= Len(sgTrack)
    /\ sgSt' = SegStep(sgSt, sgTrack[sgI], sgMax)
    /\ sgI' = sgI + 1
    /\ sgPc' = (IF sgSt'.threw THEN "threw" ELSE "loop")
    /\ UNCHANGED <<pollerVars, sgInput, sgMax, sgTrack>>

\* the clean up and vessel.lines = lines
Seg_finish ==
    /\ sgPc = "loop"
    /\ sgI > Len(sgTrack)
    /\ sgSt' = SegFinish(sgSt)
    /\ sgPc' = "done"
    /\ UNCHANGED <<pollerVars, sgInput, sgMax, sgTrack, sgI>>

SegNext == Seg_sort \/ Seg_step \/ Seg_finish

SegSpec == SegInit /\ [][SegNext]_vars

\* ------------------------------------------------------------------------
\* Properties

\* C1: in Tracks only the response of the most recently issued request is
\* ever applied to the displayed tracks: a step that applies a response
\* applies the one of the last request issued.
C1_OnlyLatestApplied ==
    [][(component = "Tracks" /\ applied' # applied) => applied' = issued']_vars

\* C2: in TrackLayer at most one request is outstanding at every moment.
C2_AtMostOneOutstanding ==
    component = "TrackLayer" => Cardinality(inflight) <= 1

\* C3: in TrackLayer a step that handles failures changes the displayed
\* tracks only by clearing them, and only when the failures since the last
\* success have reached maxErrors; below maxErrors it leaves the tracks as
\* they were; a step that applies a successful response resets the counter.
C3_ClearOnlyAtThreshold ==
    [][component = "TrackLayer" =>
          /\ (failStreak' > failStreak) =>
                /\ (tracks' # tracks => (failStreak' >= maxErrors /\ tracks' = <<>>))
                /\ (failStreak' < maxErrors => tracks' = tracks)
          /\ (applied' # applied) => (refreshErrors' = 0)]_vars

\* C3 witness: displayed tracks were cleared by the failure that made the
\* streak reach maxErrors, after an earlier response had been applied
C3_Witness ==
    /\ component = "TrackLayer"
    /\ mounted
    /\ applied > 0
    /\ failStreak = maxErrors
    /\ refreshErrors = maxErrors
    /\ tracks = <<>>

\* C4: no request is issued before the soft-start callback has run.
C4_NoRequestBeforeSoftStart == ~softStarted => issued = 0

\* C5: after the unmount neither the soft-start timer nor the refresh
\* interval is still set, in both components.
C5_NoTimerAfterUnmount ==
    torn => (startupTimer # "pending" /\ refreshTimer # "active")

\* C6: after TrackLayer is unmounted no request of it is still in flight
\* and no setState has been made against the unmounted component.
C6_NoUpdateAfterUnmount ==
    (component = "TrackLayer" /\ torn) => (inflight = {} /\ ~lateUpdate)

\* C7: while the mounted component's isVisible stays false, no step issues
\* a request and no step changes the displayed tracks.
C7_SuspendedWhileHidden ==
    [][(mounted /\ mounted' /\ ~isVisible /\ ~isVisible')
          => (tracks' = tracks /\ issued' = issued)]_vars

TimerTick == TrackLayer_tick \/ Tracks_tick

\* C8: a change of isVisible leaves both timers and their callbacks as they
\* are, and while the component is mounted and visible every tick of the
\* refresh interval issues a request.
C8_VisibleAgainTickIssues ==
    /\ ~ENABLED (SetVisible /\ <<startupTimer, refreshTimer, startupCap, refreshCap>>'
                                  # <<startupTimer, refreshTimer, startupCap, refreshCap>>)
    /\ (mounted /\ isVisible /\ refreshTimer = "active")
          => ~ENABLED (TimerTick /\ issued' = issued)

IsSortedDesc(track) ==
    \A i, j \in 1..Len(track) : i < j => track[i].dt >= track[j].dt

SamePositions(a, b) ==
    /\ Len(a) = Len(b)
    /\ \A p \in {a[i] : i \in 1..Len(a)} \cup {b[i] : i \in 1..Len(b)} :
          Cardinality({i \in 1..Len(a) : a[i] = p})
              = Cardinality({i \in 1..Len(b) : b[i] = p})

\* the complete result of one response body: every vessel of the body, in
\* the body's order, with its positions sorted, its head position and the
\* lines of its whole track
CompleteResultOf(shown, data, segmentMax) ==
    /\ data.hasTracks
    /\ Len(shown) = Len(data.tracks)
    /\ \A i \in 1..Len(shown) :
          /\ shown[i].mmsi = data.tracks[i].mmsi
          /\ SamePositions(shown[i].track, data.tracks[i].track)
          /\ IsSortedDesc(shown[i].track)
          /\ shown[i].pos = (IF shown[i].track = <<>> THEN <<>>
                             ELSE <<shown[i].track[1]>>)
          /\ LET st == SegLoop(SegStart, shown[i].track, segmentMax)
             IN  ~st.threw /\ shown[i].lines = SegFinish(st).lines

\* C9: the displayed tracks are empty or the complete result of a single
\* response body.
C9_WholesaleReplace ==
    \/ tracks = <<>>
    \/ \E data \in Bodies, mv \in (IF component = "Tracks" THEN MinVals ELSE {1}) :
          CompleteResultOf(tracks, data, SegmentMaxOf(mv))

\* C9 witness: a second response has replaced the displayed two-vessel set
C9_Witness == Len(tracks) = 2 /\ applied >= 2 /\ tracks[2].lines # <<>>

\* C10: every segment in the segmenter's list of lines has more than one
\* point, at every statement of the segmenter and in its output.
C10_SegmentsLongerThanOne ==
    \A i \in 1..Len(sgSt.lines) : Len(sgSt.lines[i]) > 1

\* C10 witness: the segmenter has finished a three-point track with one
\* two-point segment, the third point being a run of its own
C10_Witness ==
    /\ sgPc = "done"
    /\ Len(sgTrack) = 3
    /\ Len(sgSt.lines) = 1
    /\ Len(sgSt.lines[1]) = 2

\* C11: when the segmenter takes a position after the first of the sorted
\* track, it appends it to the segment of the position before it only if
\* their dt differ by at most segmentMax, and it starts a new segment only
\* if they differ by more than segmentMax.
C11_GapDecidesBoundary ==
    [][(sgPc = "loop" /\ sgI' = sgI + 1 /\ sgI >= 2 /\ ~sgSt'.threw) =>
          LET gap == Abs(sgTrack[sgI - 1].dt - sgTrack[sgI].dt)
          IN  /\ (Len(sgSt'.segment) > 1) => (gap <= sgMax)
              /\ (Len(sgSt'.segment) = 1) => (gap > sgMax)]_vars

\* C11 witness: a finished track whose first two positions are split by a
\* larger gap and whose last two, exactly segmentMax apart, share the one
\* output segment
C11_Witness ==
    /\ sgPc = "done"
    /\ Len(sgTrack) = 3
    /\ sgTrack[1].dt - sgTrack[2].dt > sgMax
    /\ sgTrack[2].dt - sgTrack[3].dt = sgMax
    /\ sgSt.lines = << << <<sgTrack[2].lat, sgTrack[2].lon>>,
                          <<sgTrack[3].lat, sgTrack[3].lon>> >> >>

\* position i of a sorted track is a run of its own: it is more than
\* segmentMax away from both of its neighbours
LoneRun(track, i, segmentMax) ==
    /\ (i = 1 \/ Abs(track[i - 1].dt - track[i].dt) > segmentMax)
    /\ (i = Len(track) \/ Abs(track[i].dt - track[i + 1].dt) > segmentMax)

\* the (lat, lon) pairs of a sorted track, in order, without the lone runs
KeptPoints(track, segmentMax) ==
    LET kept == SelectSeq([i \in 1..Len(track) |-> i],
                          LAMBDA i : ~LoneRun(track, i, segmentMax))
    IN  [k \in 1..Len(kept) |-> <<track[kept[k]].lat, track[kept[k]].lon>>]

RECURSIVE Flatten(_)
Flatten(lines) == IF lines = <<>> THEN <<>> ELSE Head(lines) \o Flatten(Tail(lines))

C13_ExampleAscending ==
    (sgInput = ExampleTrack /\ sgMax = SegmentMaxOf(1) /\ sgPc = "done")
        => sgSt.lines = << << <<10, 11>>, <<20, 21>> >> >>

\* C13, amended: the track with dt = [100, 190, 5000] and threshold 180
\* yields exactly one segment, holding the points of dt 190 and 100 in the
\* order [190, 100]; the point of dt 5000 is in no segment.
C13_ExampleDescending ==
    (sgInput = ExampleTrack /\ sgMax = SegmentMaxOf(1) /\ sgPc = "done")
        => sgSt.lines = << << <<20, 21>>, <<10, 11>> >> >>

\* C13 witness: the segmenter has finished the example track
C13_Witness ==
    /\ sgInput = ExampleTrack
    /\ sgMax = SegmentMaxOf(1)
    /\ sgPc = "done"
    /\ sgTrack[1].dt = 5000

\* render: <Marker position={[vessel.pos.lat, vessel.pos.lon]}> and
\* vessel.lines.map(...) need a defined head position and a lines list
\* (lines is set for every vessel the .then handler finishes)
Renderable(vessel) == vessel.pos # <<>>

\* C14: every vessel of the displayed tracks has a defined head position,
\* so the render step can process every displayed state.
C14_DisplayedRenderable ==
    \A i \in 1..Len(tracks) : Renderable(tracks[i])

\* C15: in Tracks a step that handles a failed or cancelled request leaves
\* the displayed tracks as they were, whatever the failure streak.
C15_FailureKeepsTracks ==
    [][(component = "Tracks" /\ failStreak' > failStreak) => tracks' = tracks]_vars

\* C15 witness: Tracks still displays a response after every later request
\* has failed or been cancelled
C15_Witness ==
    /\ component = "Tracks"
    /\ tracks # <<>>
    /\ failStreak = MaxHistoryRequests - 1
    /\ inflight = {}

\* C16: a step that handles a failed request of the mounted component
\* issues no request and leaves both timers as they are, and once the
\* refresh interval runs, a failure streak of any length leaves it running:
\* while the component is mounted and visible every tick issues a request.
C16_NoBackoffNextTickIssues ==
    [][/\ (/\ failStreak' > failStreak
           /\ mounted'
           /\ Cardinality(inflight') < Cardinality(inflight))
          => (/\ issued' = issued
              /\ refreshTimer' = refreshTimer
              /\ startupTimer' = startupTimer)
       /\ (mounted /\ isVisible /\ softStarted /\ failStreak > 0)
          => (/\ refreshTimer = "active"
              /\ ~ENABLED (TimerTick /\ issued' = issued))]_vars

\* what the failure path leaves behind: no response applied, the displayed
\* tracks kept (emptied by TrackLayer at its threshold, never replaced),
\* and TrackLayer's counter one higher
HandledAsFailure ==
    /\ applied' = applied
    /\ failStreak' = failStreak + 1
    /\ tracks' = (IF component = "TrackLayer" /\ refreshErrors' >= maxErrors
                  THEN <<>> ELSE tracks)
    /\ (component = "TrackLayer") => (refreshErrors' = refreshErrors + 1)

\* C17: a successful response in which some vessel's most recent position
\* has dt <= segmentMax is handled as a failure, whatever its other vessels
\* are: it is not applied, the displayed tracks are not replaced by it, and
\* in TrackLayer the consecutive-failure counter goes up by one.
C17_RecentHeadIsFailure == [][recentHead' => HandledAsFailure]_vars

\* tracks were displayed, and a response whose second vessel has its most
\* recent position at dt 150 has just been handled by TrackLayer: the
\* tracks are still displayed and the counter is up
C17_Witness ==
    /\ component = "TrackLayer"
    /\ recentHead
    /\ tracks # <<>>
    /\ refreshErrors > 0

====
